---- MODULE Spec2Model ----
(***************************************************************************)
(* Model of spring_distance_measurement_1.ino: setup() initialises a       *)
(* VL53L0X time-of-flight sensor once, loop() polls it forever and prints  *)
(* "<elapsed seconds, 3 decimals> <distance>" for samples below 600 mm.    *)
(*                                                                         *)
(* The millisecond counter millis() is a 32-bit unsigned value.  It is     *)
(* held as a record [s, ms] standing for s*1000 + ms, so that every        *)
(* intermediate value of the arithmetic below stays under 2^31.            *)
(* A single-precision float is held as [m, k] standing for m / 2^k with a  *)
(* 24-bit mantissa m (2^23 <= m < 2^24), and zero as [m |-> 0, k |-> 0].   *)
(***************************************************************************)
EXTENDS Integers, Sequences, FiniteSets

(* ------------------------------ bounds -------------------------------- *)

\* number of clock advances (Tick, LongRun) in a behaviour
MaxTicks == 2
\* number of samples below the threshold the sensor delivers
MaxLines == 1

(* ------------------------- program constants -------------------------- *)

DISTANCE_THRESHOLD == 600
SensorTimeout == 1000
SetupDelay == 500
\* 2^32 = WrapS * 1000 + WrapMs
WrapS == 4294967
WrapMs == 296
\* a float has a 24-bit mantissa: 2^23 <= m < 2^24
MantHi == 16777216
MantLo == 8388608

Ms(n) == [s |-> n \div 1000, ms |-> n % 1000]

\* the counter value a + d, modulo 2^32
TickAdd(a, d) ==
  LET lo == a.ms + d.ms
      s1 == a.s + d.s + lo \div 1000
      m1 == lo % 1000
  IN  IF s1 > WrapS \/ (s1 = WrapS /\ m1 >= WrapMs)
      THEN IF m1 >= WrapMs
           THEN [s |-> s1 - WrapS, ms |-> m1 - WrapMs]
           ELSE [s |-> s1 - WrapS - 1, ms |-> m1 + 1000 - WrapMs]
      ELSE [s |-> s1, ms |-> m1]

TickLeq(a, b) == a.s < b.s \/ (a.s = b.s /\ a.ms <= b.ms)

RECURSIVE Pow2(_)
Pow2(n) == IF n = 0 THEN 1 ELSE 2 * Pow2(n - 1)

(* --------------------- millis() / 1000.0 as a float ------------------- *)

FloatZero == [m |-> 0, k |-> 0]

\* binary digits of q + r/1000 until the mantissa has 24 bits:
\* the result <<m, r, k>> satisfies (q0 + r0/1000) * 2^k = m + r/1000
RECURSIVE Mantissa(_, _, _)
Mantissa(q, r, k) ==
  IF q >= MantLo THEN <<q, r, k>>
  ELSE Mantissa(2 * q + (IF 2 * r >= 1000 THEN 1 ELSE 0), (2 * r) % 1000, k + 1)

\* (float)(t / 1000.0): round to nearest, ties to even.  The quotient is
\* first rounded to a double; t/1000 is never within a double's rounding
\* error of the midpoint of two floats, so the two roundings agree with one.
ToFloat(t) ==
  IF t.s = 0 /\ t.ms = 0 THEN FloatZero
  ELSE LET x  == Mantissa(t.s, t.ms, 0)
           up == 2 * x[2] > 1000 \/ (2 * x[2] = 1000 /\ x[1] % 2 = 1)
           m  == IF up THEN x[1] + 1 ELSE x[1]
       IN  IF m = MantHi THEN [m |-> MantLo, k |-> x[3] - 1]
           ELSE [m |-> m, k |-> x[3]]

FloatLeq(a, b) ==
  \/ a.m = 0
  \/ /\ b.m # 0
     /\ \/ a.k > b.k
        \/ a.k = b.k /\ a.m <= b.m

(* ------------------------ Serial.print(f, 3) -------------------------- *)

\* Print::printFloat adds 0.5/10/10/10 to the value, prints the integer
\* part and then three decimals by repeated multiplication by ten, so the
\* printed number, in thousandths, is floor(1000 * f + 1/2).  With
\* f = ip + q/2^k, 1000*q/2^k is (A + B/4096) / 2^K below.  When 1000 * f + 1/2
\* is an integer N the rounding of the double addition decides between
\* N - 1 and N; both outcomes are kept.  The result is the set of printed
\* values, each as thousandths [s, ms].
PrintFloat(f) ==
  LET ip    == IF f.k <= 23 THEN f.m \div Pow2(f.k) ELSE 0
      q     == IF f.k <= 23 THEN f.m % Pow2(f.k) ELSE f.m
      split == f.k > 12
      A     == IF split THEN 1000 * (q \div 4096) + (1000 * (q % 4096)) \div 4096
                        ELSE 1000 * q
      B     == IF split THEN (1000 * (q % 4096)) % 4096 ELSE 0
      K     == IF split THEN f.k - 12 ELSE f.k
      num   == IF K = 0 THEN A ELSE A + Pow2(K - 1)
      N     == num \div Pow2(K)
      tie   == K > 0 /\ B = 0 /\ num % Pow2(K) = 0
      out(n) == [s |-> ip + n \div 1000, ms |-> n % 1000]
  IN  IF tie THEN {out(N - 1), out(N)} ELSE {out(N)}

(* ----------------------------- environment ---------------------------- *)

\* values readRangeContinuousMillimeters() returns (a uint16_t, exact as a
\* float); 65535 is what the library returns for a read that timed out
Samples == {599, 600, 65535}

\* amounts by which the clock is seen to advance between two statements of
\* loop(): half the sensor timeout, and all of it
ClockSteps == {Ms(SensorTimeout \div 2), Ms(SensorTimeout)}

\* durations of the long runs of iterations that are not followed one by
\* one: from the end of setup() to 16384.001 s, and to the last value of the
\* counter before it wraps
LongRuns == {Ms(16383501), [s |-> 4294966, ms |-> 795]}

(* -------------------------------- state ------------------------------- *)

VARIABLES
  pc,           \* position of the single thread of control
  now,          \* the value millis() would return
  elapsedTime,  \* loop()'s local, a float
  distance,     \* loop()'s local, a float holding a uint16_t
  console,      \* everything written to Serial, in order
  initCalls,    \* calls of sensor.init()
  initResult,   \* what sensor.init() returned: "none" before the call
  startCalls,   \* calls of sensor.startContinuous()
  tick,         \* value millis() returned in the current iteration
  returnedAt,   \* clock when the current iteration's read returned
  prevElapsed,  \* elapsedTime of the previous iteration
  conBefore,    \* Len(console) when the current iteration began
  iter,         \* iterations begun: 0, 1, or 2 for two or more
  waited,       \* milliseconds spent so far in the current read
  inRange,      \* samples below the threshold returned so far
  ticksLeft     \* clock advances still allowed

vars == <<pc, now, elapsedTime, distance, console, initCalls, initResult,
          startCalls, tick, returnedAt, prevElapsed, conBefore, iter, waited,
          inRange, ticksLeft>>

Msg(text) == [kind |-> "msg", text |-> text]
Line(time, dist) == [kind |-> "dist", time |-> time, dist |-> dist]

MsgInitializing == Msg("Initializing...")
MsgFailed == Msg("Failed to initialize sensor! Restarting...")
MsgSuccess == Msg("Sensor initialized successfully.")

DistLines(out) == SelectSeq(out, LAMBDA l : l.kind = "dist")

Init ==
  /\ pc = "boot"
  /\ now = Ms(0)
  /\ elapsedTime = FloatZero
  /\ distance = 0
  /\ console = <<>>
  /\ initCalls = 0
  /\ initResult = "none"
  /\ startCalls = 0
  /\ tick = Ms(0)
  /\ returnedAt = Ms(0)
  /\ prevElapsed = FloatZero
  /\ conBefore = 0
  /\ iter = 0
  /\ waited = 0
  /\ inRange = 0
  /\ ticksLeft = MaxTicks

(* ------------------------------- setup() ------------------------------ *)

\* Serial.begin, Wire.begin, delay(500), the banner, pinMode, setTimeout
SetupBegin ==
  /\ pc = "boot"
  /\ now' = TickAdd(now, Ms(SetupDelay))
  /\ console' = Append(console, MsgInitializing)
  /\ pc' = "init"
  /\ UNCHANGED <<elapsedTime, distance, initCalls, initResult, startCalls,
                 tick, returnedAt, prevElapsed, conBefore, iter, waited,
                 inRange, ticksLeft>>

\* variant: the idle loop after the failure message is missing
SetupInit_noHalt(ok) ==
  /\ pc = "init"
  /\ initCalls' = initCalls + 1
  /\ initResult' = IF ok THEN "ok" ELSE "failed"
  /\ console' = IF ok THEN console ELSE Append(console, MsgFailed)
  /\ pc' = "start"
  /\ UNCHANGED <<now, elapsedTime, distance, startCalls, tick, returnedAt,
                 prevElapsed, conBefore, iter, waited, inRange, ticksLeft>>

\* variant: the board restarts after the failure message
SetupInit_restart(ok) ==
  /\ pc = "init"
  /\ initCalls' = initCalls + 1
  /\ initResult' = IF ok THEN "ok" ELSE "failed"
  /\ IF ok
     THEN /\ pc' = "start"
          /\ UNCHANGED console
     ELSE /\ pc' = "boot"
          /\ console' = Append(console, MsgFailed)
  /\ UNCHANGED <<now, elapsedTime, distance, startCalls, tick, returnedAt,
                 prevElapsed, conBefore, iter, waited, inRange, ticksLeft>>

\* variant: sensor.init() is tried again after a failure
SetupInit_retry(ok) ==
  /\ pc = "init"
  /\ initCalls' = initCalls + 1
  /\ initResult' = IF ok THEN "ok" ELSE "failed"
  /\ pc' = IF ok THEN "start" ELSE "init"
  /\ UNCHANGED console
  /\ UNCHANGED <<now, elapsedTime, distance, startCalls, tick, returnedAt,
                 prevElapsed, conBefore, iter, waited, inRange, ticksLeft>>

\* if (!sensor.init()) { println(failure); while (1) {} }
SetupInit(ok) ==
  /\ pc = "init"
  /\ initCalls' = initCalls + 1
  /\ initResult' = IF ok THEN "ok" ELSE "failed"
  /\ IF ok
     THEN /\ pc' = "start"
          /\ UNCHANGED console
     ELSE /\ pc' = "halted"
          /\ console' = Append(console, MsgFailed)
  /\ UNCHANGED <<now, elapsedTime, distance, startCalls, tick, returnedAt,
                 prevElapsed, conBefore, iter, waited, inRange, ticksLeft>>

\* while (1) {}
Halt ==
  /\ pc = "halted"
  /\ pc' = "halted"
  /\ UNCHANGED <<now, elapsedTime, distance, console, initCalls, initResult,
                 startCalls, tick, returnedAt, prevElapsed, conBefore, iter,
                 waited, inRange, ticksLeft>>

\* variant: continuous mode is never started
SetupStart_noStart ==
  /\ pc = "start"
  /\ console' = Append(console, MsgSuccess)
  /\ pc' = "loop"
  /\ UNCHANGED <<now, elapsedTime, distance, initCalls, initResult,
                 startCalls, tick, returnedAt, prevElapsed, conBefore, iter,
                 waited, inRange, ticksLeft>>

\* sensor.startContinuous(); println(success); setup() returns and the
\* Arduino core calls loop() from then on
SetupStart ==
  /\ pc = "start"
  /\ startCalls' = startCalls + 1
  /\ console' = Append(console, MsgSuccess)
  /\ pc' = "loop"
  /\ UNCHANGED <<now, elapsedTime, distance, initCalls, initResult, tick,
                 returnedAt, prevElapsed, conBefore, iter, waited, inRange,
                 ticksLeft>>

(* ------------------------------- loop() ------------------------------- *)

\* elapsedTime = millis() / 1000.0; the read is requested next
LoopMillis ==
  /\ pc = "loop"
  /\ tick' = now
  /\ elapsedTime' = ToFloat(now)
  /\ prevElapsed' = elapsedTime
  /\ conBefore' = Len(console)
  /\ iter' = IF iter < 2 THEN iter + 1 ELSE 2
  /\ waited' = 0
  /\ pc' = "read"
  /\ UNCHANGED <<now, distance, console, initCalls, initResult, startCalls,
                 returnedAt, inRange, ticksLeft>>

\* distance = sensor.readRangeContinuousMillimeters() returns v
LoopRead(v) ==
  /\ pc = "read"
  /\ v < DISTANCE_THRESHOLD => inRange < MaxLines
  /\ distance' = v
  /\ returnedAt' = now
  /\ inRange' = IF v < DISTANCE_THRESHOLD THEN inRange + 1 ELSE inRange
  /\ pc' = "cmp"
  /\ UNCHANGED <<now, elapsedTime, console, initCalls, initResult, startCalls,
                 tick, prevElapsed, conBefore, iter, waited, ticksLeft>>

\* variant: the comparison is <= instead of <
LoopEmit_inclusive ==
  /\ pc = "cmp"
  /\ IF distance <= DISTANCE_THRESHOLD
     THEN \E p \in PrintFloat(elapsedTime) :
            console' = Append(console, Line(p, distance))
     ELSE UNCHANGED console
  /\ pc' = "loop"
  /\ UNCHANGED <<now, elapsedTime, distance, initCalls, initResult,
                 startCalls, tick, returnedAt, prevElapsed, conBefore, iter,
                 waited, inRange, ticksLeft>>

\* variant: a read that timed out is reported and stops the program
LoopEmit_haltOnTimeout ==
  /\ pc = "cmp"
  /\ IF distance = 65535
     THEN /\ console' = Append(console, MsgFailed)
          /\ pc' = "halted"
     ELSE /\ IF distance < DISTANCE_THRESHOLD
             THEN \E p \in PrintFloat(elapsedTime) :
                    console' = Append(console, Line(p, distance))
             ELSE UNCHANGED console
          /\ pc' = "loop"
  /\ UNCHANGED <<now, elapsedTime, distance, initCalls, initResult,
                 startCalls, tick, returnedAt, prevElapsed, conBefore, iter,
                 waited, inRange, ticksLeft>>

\* variant: the poll runs once and the program idles afterwards
LoopEmit_once ==
  /\ pc = "cmp"
  /\ IF distance < DISTANCE_THRESHOLD
     THEN \E p \in PrintFloat(elapsedTime) :
            console' = Append(console, Line(p, distance))
     ELSE UNCHANGED console
  /\ pc' = "halted"
  /\ UNCHANGED <<now, elapsedTime, distance, initCalls, initResult,
                 startCalls, tick, returnedAt, prevElapsed, conBefore, iter,
                 waited, inRange, ticksLeft>>

\* if (distance < DISTANCE_THRESHOLD) { print(elapsedTime, 3); print(" ");
\* println(distance); } and loop() returns
LoopEmit ==
  /\ pc = "cmp"
  /\ IF distance < DISTANCE_THRESHOLD
     THEN \E p \in PrintFloat(elapsedTime) :
            console' = Append(console, Line(p, distance))
     ELSE UNCHANGED console
  /\ pc' = "loop"
  /\ UNCHANGED <<now, elapsedTime, distance, initCalls, initResult,
                 startCalls, tick, returnedAt, prevElapsed, conBefore, iter,
                 waited, inRange, ticksLeft>>

(* ------------------------------ the clock ----------------------------- *)

\* millis() advances by d, between two iterations or while the read blocks;
\* a read blocks for at most the timeout set by sensor.setTimeout(1000)
Tick(d) ==
  /\ pc \in {"loop", "read"}
  /\ ticksLeft > 0
  /\ pc = "read" => d.s <= 1 /\ waited + d.s * 1000 + d.ms <= SensorTimeout
  /\ now' = TickAdd(now, d)
  /\ waited' = IF pc = "read" THEN waited + d.s * 1000 + d.ms ELSE waited
  /\ ticksLeft' = ticksLeft - 1
  /\ UNCHANGED <<pc, elapsedTime, distance, console, initCalls, initResult,
                 startCalls, tick, returnedAt, prevElapsed, conBefore, iter,
                 inRange>>

\* a run of iterations of loop(), lasting d in all, in which every sample
\* is 600 or more and nothing is printed; the state is that left by the
\* last of them, which read the clock at the end of the run, as did the
\* one before it, and got the sample v
LongRun(d, v) ==
  /\ pc = "loop"
  /\ ticksLeft > 0
  /\ v >= DISTANCE_THRESHOLD
  /\ now' = TickAdd(now, d)
  /\ tick' = now'
  /\ returnedAt' = now'
  /\ elapsedTime' = ToFloat(now')
  /\ prevElapsed' = ToFloat(now')
  /\ distance' = v
  /\ conBefore' = Len(console)
  /\ iter' = 2
  /\ waited' = 0
  /\ ticksLeft' = ticksLeft - 1
  /\ UNCHANGED <<pc, console, initCalls, initResult, startCalls, inRange>>

Step ==
  \/ SetupBegin
  \/ \E ok \in BOOLEAN : SetupInit(ok)
  \/ SetupStart
  \/ Halt
  \/ LoopMillis
  \/ \E v \in Samples : LoopRead(v)
  \/ LoopEmit

Next ==
  \/ Step
  \/ \E d \in ClockSteps : Tick(d)
  \/ \E d \in LongRuns, v \in Samples : LongRun(d, v)

Spec == Init /\ [][Next]_vars

\* the processor keeps executing, and every sensor read and console write
\* returns
LiveSpec == Spec /\ WF_vars(Step)

(* ============================== properties ============================ *)

LastLine == console[Len(console)]
FailureCount == Len(SelectSeq(console, LAMBDA l : l = MsgFailed))
Running == pc \in {"start", "loop", "read", "cmp"}
IterationDone == pc = "loop" /\ iter >= 1

State ==
  IF pc \in {"boot", "init"} THEN "UNINITIALIZED"
  ELSE IF pc = "halted" THEN "HALTED" ELSE "RUNNING"

\* C1: an iteration whose sample is below 600 writes exactly one line, made
\* of the elapsed time computed in that iteration and of that sample; an
\* iteration whose sample is 600 or more writes nothing.
C1_ThresholdFilter ==
  /\ pc \in {"read", "cmp"} => Len(console) = conBefore
  /\ IterationDone =>
       IF distance < 600
       THEN /\ Len(console) = conBefore + 1
            /\ LastLine.kind = "dist"
            /\ LastLine.dist = distance
            /\ LastLine.time \in PrintFloat(ToFloat(tick))
       ELSE Len(console) = conBefore

C1_Witness ==
  /\ IterationDone
  /\ distance = 600
  /\ Len(console) = conBefore
  /\ Len(DistLines(console)) = 1

\* C2: after sensor.init() failed the failure message is on the console
\* exactly once, no distance line is ever written and loop() is never
\* entered, so no sensor read is requested.
C2_InitFailureHalts ==
  initResult = "failed" =>
    /\ pc = "halted"
    /\ FailureCount = 1
    /\ DistLines(console) = <<>>
    /\ iter = 0

C2_Witness == initResult = "failed" /\ pc = "halted" /\ FailureCount = 1

\* C3 as stated: after sensor.init() failed the console holds the failure
\* message and nothing else.
C3_OnlyFailureMessage ==
  initResult = "failed" => console = <<MsgFailed>>

\* C3 amended: after sensor.init() failed the console holds the banner
\* "Initializing..." followed by the failure message and nothing else, the
\* poll loop never runs and the program stays in its idle loop.
C3_BannerThenFailure ==
  initResult = "failed" =>
    /\ console = <<MsgInitializing, MsgFailed>>
    /\ pc = "halted"
    /\ iter = 0
    /\ startCalls = 0

C3_Witness == initResult = "failed" /\ Len(console) = 2

\* C4: sensor.startContinuous() is called exactly once when init succeeds,
\* before the first sensor read, and never when init fails.
C4_StartContinuousOnce ==
  /\ startCalls <= 1
  /\ initResult = "failed" => startCalls = 0
  /\ pc \in {"loop", "read", "cmp"} \/ iter >= 1 =>
       startCalls = 1 /\ initResult = "ok"

C4_Witness == pc = "read" /\ iter = 1 /\ startCalls = 1

\* C5: the elapsed time computed by loop() never decreases from one
\* iteration to the next.
C5_ElapsedMonotonic ==
  pc \in {"loop", "read", "cmp"} /\ iter >= 2 =>
    FloatLeq(prevElapsed, elapsedTime)

\* C6: the time field of an emitted line is the millisecond tick read in
\* that iteration, as seconds with three decimals.
C6_TimeFieldIsTick ==
  IterationDone /\ distance < 600 => LastLine.time = tick

\* C7: the program is UNINITIALIZED until sensor.init() returns, HALTED
\* after it failed and RUNNING after it succeeded; it never leaves HALTED
\* or RUNNING, and sensor.init() is called once and never again.
C7_StateMachine ==
  /\ [](/\ initCalls <= 1
        /\ State = "UNINITIALIZED" <=> initResult = "none" /\ initCalls = 0
        /\ State = "HALTED" <=> initResult = "failed" /\ initCalls = 1
        /\ State = "RUNNING" <=> initResult = "ok" /\ initCalls = 1)
  /\ [][/\ State = "HALTED" => State' = "HALTED"
        /\ State = "RUNNING" => State' = "RUNNING"
        /\ State # "UNINITIALIZED" => initCalls' = initCalls]_vars

C7_Witness == State = "RUNNING" /\ iter = 2 /\ initCalls = 1

\* C8: while RUNNING no sample, the time-out value 65535 included, leads to
\* an error report or a halt: an iteration writes one distance line if the
\* sample is below 600 and nothing otherwise, the failure message is never
\* written, and the next iteration requests a new read.
C8_NoReadErrorHandling ==
  /\ [](initResult = "ok" => Running /\ FailureCount = 0)
  /\ [][/\ pc = "cmp" /\ pc' # "cmp" =>
             /\ pc' = "loop"
             /\ IF distance < 600
                THEN /\ Len(console') = Len(console) + 1
                     /\ console'[Len(console')].kind = "dist"
                     /\ SubSeq(console', 1, Len(console)) = console
                ELSE console' = console
             /\ initCalls' = initCalls
             /\ startCalls' = startCalls
        /\ pc = "loop" /\ pc' # "loop" => pc' = "read"
        /\ pc = "read" /\ pc' # "read" => pc' = "cmp" /\ console' = console]_vars

C8_Witness == pc = "read" /\ distance = 65535 /\ iter = 2

\* C9: the printed timestamp of an emitted line is not later than the tick
\* at which its sample was returned.
C9_TimestampNotAfterReturn ==
  IterationDone /\ distance < 600 => TickLeq(LastLine.time, returnedAt)

====
